---------------------------- MODULE Spec2Model ----------------------------
(***************************************************************************)
(* Model of .github/workflows/scraper.py: the IPTV playlist scraper.       *)
(*                                                                         *)
(* Text is modelled as a sequence of tokens.  Each token stands for one    *)
(* concrete piece of text, and no token is a prefix of another, so the     *)
(* code-point order of the concrete strings is the lexicographic order of  *)
(* the token sequences under CodePoint:                                    *)
(*   "http://"  the scheme matched by https?://                            *)
(*   "x"        an ordinary character of the class [^\s'"]                 *)
(*   ".m3u8"    the literal of the first pattern                           *)
(*   "/live"    the literal of the second pattern, /(?:stream|live)        *)
(*   " "        a character outside the class [^\s'"] (a blank)            *)
(*   "<b>"      a complete markup tag holding no blank and no quote        *)
(* A quote delimits a link exactly as a blank does, so " " stands for      *)
(* both.  re.IGNORECASE only widens the set of concrete strings a token    *)
(* stands for; two spellings of a link are two different strings.          *)
(***************************************************************************)
EXTENDS Integers, Sequences, FiniteSets, TLC

\* ------------------------------------------------------------------ bounds

\* Longest HTML text given to the extractor.
MaxHtml == 4
\* Number of calls of extract_stream_links made on one input.
MaxCalls == 2
\* Longest registry of sources given to build_playlist.
MaxSources == 2

\* ------------------------------------------------------------- text, order

SCHEME == "http://"
CHAR == "x"
M3U8 == ".m3u8"
LIVE == "/live"
BLANK == " "
TAG == "<b>"
NL == "\n"

Tokens == {SCHEME, CHAR, M3U8, LIVE, BLANK, TAG}

\* The code point of a token's first character: str comparison in sorted().
\* Any other token is a piece of playlist text, which starts with "#".
CodePoint(tok) ==
    CASE tok = NL -> 10
      [] tok = BLANK -> 32
      [] tok = M3U8 -> 46
      [] tok = LIVE -> 47
      [] tok = TAG -> 60
      [] tok = SCHEME -> 104
      [] tok = CHAR -> 120
      [] OTHER -> 35

Min(a, b) == IF a < b THEN a ELSE b

\* a < b on str: code-point lexicographic order, a proper prefix is smaller.
StrLess(a, b) ==
    \E k \in 1..(Min(Len(a), Len(b)) + 1) :
        /\ \A j \in 1..(k - 1) : a[j] = b[j]
        /\ \/ k = Len(a) + 1 /\ k <= Len(b)
           \/ k <= Len(a) /\ k <= Len(b) /\ CodePoint(a[k]) < CodePoint(b[k])

Range(s) == {s[j] : j \in 1..Len(s)}

\* All sequences over S of length at most n.
SeqsUpTo(S, n) == UNION {[1..k -> S] : k \in 0..n}

\* The orders in which iterating the set S may yield its elements.
IterationOrders(S) ==
    {o \in [1..Cardinality(S) -> S] : Range(o) = S}

\* (mutation of InsertSorted: the elements stay in iteration order)
InsertUnsorted(x, s) == s \o <<x>>

\* x placed into the sorted list s after every element not greater than it.
InsertSorted(x, s) ==
    LET n == Cardinality({j \in 1..Len(s) : ~StrLess(x, s[j])})
    IN  SubSeq(s, 1, n) \o <<x>> \o SubSeq(s, n + 1, Len(s))

RECURSIVE SortedFrom(_, _)
SortedFrom(s, acc) ==
    IF s = <<>> THEN acc ELSE SortedFrom(Tail(s), InsertSorted(Head(s), acc))

\* sorted(iterable): a stable sort of the elements in iteration order.
sorted(s) == SortedFrom(s, <<>>)

\* ------------------------------------------------------------ the patterns

\* STREAM_LINK_PATTERNS[p] is  https?://[^\s'"]+<Literal(p)>[^\s'"]*
STREAM_LINK_PATTERNS == {1, 2}

Literal(p) == IF p = 1 THEN M3U8 ELSE LIVE

\* [^\s'"]
InClass(tok) == tok # BLANK /\ tok # NL

\* The last position of the maximal run of class characters starting at s.
RunEnd(text, s) ==
    CHOOSE e \in s..Len(text) :
        /\ \A j \in s..e : InClass(text[j])
        /\ e = Len(text) \/ ~InClass(text[e + 1])

\* pattern.match at position s: 0 when there is no match, else the position
\* of the match's last token.  The greedy [^\s'"]+ backtracks to a literal
\* that follows at least one class character; the trailing [^\s'"]* then
\* takes the rest of the run.
MatchEnd(p, text, s) ==
    IF text[s] # SCHEME THEN 0
    ELSE LET e == RunEnd(text, s)
         IN  IF \E k \in (s + 2)..e : text[k] = Literal(p) THEN e ELSE 0

\* pattern.findall(text): the non-overlapping matches, left to right.
RECURSIVE FindFrom(_, _, _)
FindFrom(p, text, s) ==
    IF s > Len(text) THEN <<>>
    ELSE LET e == MatchEnd(p, text, s)
         IN  IF e > 0
             THEN <<SubSeq(text, s, e)>> \o FindFrom(p, text, e + 1)
             ELSE FindFrom(p, text, s + 1)

findall(p, text) == FindFrom(p, text, 1)

\* ---------------------------------------------------------------- get_text

\* The text nodes of the parsed document: the non-empty pieces between tags.
RECURSIVE TextNodes(_, _)
TextNodes(html, cur) ==
    IF html = <<>> THEN (IF cur = <<>> THEN <<>> ELSE <<cur>>)
    ELSE IF Head(html) = TAG
         THEN (IF cur = <<>> THEN <<>> ELSE <<cur>>) \o TextNodes(Tail(html), <<>>)
         ELSE TextNodes(Tail(html), Append(cur, Head(html)))

RECURSIVE JoinWith(_, _)
JoinWith(sep, strs) ==
    IF strs = <<>> THEN <<>>
    ELSE IF Len(strs) = 1 THEN strs[1]
         ELSE strs[1] \o <<sep>> \o JoinWith(sep, Tail(strs))

\* BeautifulSoup(html, "html.parser").get_text(" ")
get_text(html) == JoinWith(BLANK, TextNodes(html, <<>>))

\* [html, soup.get_text(" ")]
text_sources(html) == <<html, get_text(html)>>

\* ------------------------------------------------------------------ values

None == <<>>
Some(v) == <<v>>
Get(opt) == opt[1]

\* Source(name, url); override: the instance's class overrides extract_links.
Toffee == [name |-> "Toffee", url |-> "https://toffeelive.com/en/live", override |-> FALSE]
Bongo == [name |-> "Bongo", url |-> "https://example.com/bongo", override |-> FALSE]
Custom == [name |-> "Custom", url |-> "https://example.com/custom", override |-> TRUE]

SOURCES == <<Toffee, Bongo>>

SourceValues == {Toffee, Bongo, Custom}

\* The registries build_playlist is run on; SOURCES is one of them.
Registries == SeqsUpTo(SourceValues, MaxSources)

\* Final HTTP statuses a server may answer with (redirects already followed).
Statuses == {101, 200, 204, 299, 300, 304, 399, 400, 404, 499, 500, 503, 599}

LinkM == <<SCHEME, CHAR, M3U8>>
LinkL == <<SCHEME, CHAR, LIVE>>

\* Response bodies: empty, markup without a link, one link, and two links
\* met in descending order.
Pages == {<<>>, <<TAG, CHAR, TAG>>, LinkM, LinkL \o <<BLANK>> \o LinkM}

\* What an overriding extract_links may return: nothing, links in
\* descending order, a repeated link.
OverrideResults == {<<>>, <<LinkL, LinkM>>, <<LinkM, LinkM>>}

\* A playlist left at PLAYLIST_PATH by an earlier run.
OldPlaylist == <<"#EXTM3U", NL, "#EXTINF:-1, Stale 1", NL, "http://", "x", "/live", "x", NL>>

InitialFiles == {None, Some(OldPlaylist)}

HEADER == <<"#EXTM3U">>

\* ------------------------------------------------------------------- state

VARIABLES
    sources,    \* the registry handed to build_playlist
    file,       \* content of PLAYLIST_PATH, None while the file does not exist
    pc,         \* position of the run: start, request, status, extract,
                \* format, save, done, failed
    index,      \* position in sources of the source being processed
    response,   \* fetch_html's response, kept until its html is consumed
    html,       \* build_playlist's html
    links,      \* build_playlist's links
    entries,    \* build_playlist's entries
    oldFile,    \* history: content of PLAYLIST_PATH when the run began
    requested,  \* history: requests.get calls issued per position
    phase,      \* history: how far each position has been processed
    extracted,  \* history: what extract_links returned per position
    saveCalls,  \* history: calls of save_playlist
    failure,    \* history: the kind of error that ended the run
    x_pc,       \* position of a call of extract_stream_links
    x_html,     \* extract_stream_links's html
    x_texts,    \* extract_stream_links's text_sources
    x_t,        \* index of the text of the outer loop
    x_p,        \* index of the pattern of the inner loop
    x_links,    \* extract_stream_links's links
    x_results   \* the return values of the calls completed so far

runVars == <<sources, file, pc, index, response, html, links, entries,
             oldFile, requested, phase, extracted, saveCalls, failure>>
xVars == <<x_pc, x_html, x_texts, x_t, x_p, x_links, x_results>>
vars == <<runVars, xVars>>

Positions == 1..Len(sources)

\* --------------------------------------------------- extract_stream_links

\* soup = BeautifulSoup(...); text_sources = [...]; links = set()
ParseHtml ==
    /\ x_pc = "parse"
    /\ x_texts' = text_sources(x_html)
    /\ x_links' = {}
    /\ x_t' = 1
    /\ x_p' = 1
    /\ x_pc' = "scan"
    /\ UNCHANGED <<x_html, x_results, runVars>>

\* links.update(pattern.findall(text)) for the current text and pattern
ScanPattern ==
    /\ x_pc = "scan"
    /\ x_links' = x_links \cup Range(findall(x_p, x_texts[x_t]))
    /\ IF x_p < Cardinality(STREAM_LINK_PATTERNS)
       THEN x_p' = x_p + 1 /\ UNCHANGED <<x_t, x_pc>>
       ELSE IF x_t < Len(x_texts)
            THEN x_t' = x_t + 1 /\ x_p' = 1 /\ UNCHANGED x_pc
            ELSE x_pc' = "sort" /\ UNCHANGED <<x_t, x_p>>
    /\ UNCHANGED <<x_html, x_texts, x_results, runVars>>

\* return sorted(links): the set is iterated in whatever order it is stored
ReturnSorted ==
    /\ x_pc = "sort"
    /\ \E o \in IterationOrders(x_links) :
           x_results' = Append(x_results, sorted(o))
    /\ x_pc' = "returned"
    /\ UNCHANGED <<x_html, x_texts, x_t, x_p, x_links, runVars>>

\* extract_stream_links is called once more on the same html
CallAgain ==
    /\ pc = "idle"
    /\ x_pc = "returned"
    /\ Len(x_results) < MaxCalls
    /\ x_pc' = "parse"
    /\ x_texts' = <<>>
    /\ x_links' = {}
    /\ x_t' = 0
    /\ x_p' = 0
    /\ UNCHANGED <<x_html, x_results, runVars>>

XIdle ==
    /\ x_pc = "idle"
    /\ x_html = <<>>
    /\ x_texts = <<>>
    /\ x_t = 0
    /\ x_p = 0
    /\ x_links = {}
    /\ x_results = <<>>

RunIdle ==
    /\ sources = <<>>
    /\ file = None
    /\ pc = "idle"
    /\ index = 0
    /\ response = None
    /\ html = None
    /\ links = <<>>
    /\ entries = <<>>
    /\ oldFile = None
    /\ requested = <<>>
    /\ phase = <<>>
    /\ extracted = <<>>
    /\ saveCalls = 0
    /\ failure = "none"

InitExtract ==
    /\ x_html \in SeqsUpTo(Tokens, MaxHtml)
    /\ x_pc = "parse"
    /\ x_texts = <<>>
    /\ x_t = 0
    /\ x_p = 0
    /\ x_links = {}
    /\ x_results = <<>>
    /\ RunIdle

NextExtract == ParseHtml \/ ScanPattern \/ ReturnSorted \/ CallAgain

SpecExtract == InitExtract /\ [][NextExtract]_vars

\* --------------------------------------------------------------- the run

\* (mutation of Propagate: main writes what was collected on an error)
PropagateToSave(kind) == pc' = "save" /\ failure' = kind

\* (mutation of Propagate: the loop swallows the error and goes on)
PropagateSwallowed(kind) ==
    /\ failure' = kind
    /\ pc' = IF pc = "save" THEN "failed" ELSE "format"

\* An exception leaves build_playlist and main, neither of which catches it.
Propagate(kind) == pc' = "failed" /\ failure' = kind

\* (mutation of NextSource: a source equal to the one before it is skipped)
NextSourceMerged(k) ==
    IF k >= 1 /\ k + 1 <= Len(sources) /\ sources[k + 1] = sources[k]
    THEN k + 2 ELSE k + 1

\* The for loop's next source after position k.
NextSource(k) == k + 1

\* (mutation of LoopFrom: save_playlist is called from inside the loop)
LoopFromEager(k, ph) == index' = 0 /\ pc' = "save" /\ phase' = ph

\* The for loop over sources moves on from position k (0: it begins): the
\* next source's fetch is called, or the loop ends and build_playlist
\* returns entries to main, which calls save_playlist.
LoopFrom(k, ph) ==
    IF NextSource(k) <= Len(sources)
    THEN /\ index' = NextSource(k)
         /\ pc' = "request"
         /\ phase' = [ph EXCEPT ![NextSource(k)] = "fetching"]
    ELSE /\ index' = 0
         /\ pc' = "save"
         /\ phase' = ph

\* (mutation of InitialEntries: the header is left out)
InitialEntriesEmpty == <<>>

\* entries: list[str] = ["#EXTM3U"]
InitialEntries == <<HEADER>>

\* main calls build_playlist(sources), which sets up entries and enters
\* the loop.
Start ==
    /\ pc = "start"
    /\ entries' = InitialEntries
    /\ LoopFrom(0, phase)
    /\ UNCHANGED <<sources, file, response, html, links, oldFile, requested,
                   extracted, saveCalls, failure, xVars>>

\* requests.get(url, timeout=timeout) returns a response.
RequestAnswered ==
    /\ pc = "request"
    /\ \E st \in Statuses, body \in Pages :
           response' = Some([status |-> st, text |-> body])
    /\ requested' = [requested EXCEPT ![index] = @ + 1]
    /\ pc' = "status"
    /\ UNCHANGED <<sources, file, index, html, links, entries, oldFile, phase,
                   extracted, saveCalls, failure, xVars>>

\* requests.get raises: a connection failure or the timeout.
RequestRaises ==
    /\ pc = "request"
    /\ requested' = [requested EXCEPT ![index] = @ + 1]
    /\ response' = None
    /\ Propagate("transport")
    /\ UNCHANGED <<sources, file, index, html, links, entries, oldFile, phase,
                   extracted, saveCalls, xVars>>

\* (mutation of IsHttpError: only client errors raise)
IsHttpErrorClientOnly(st) == 400 <= st /\ st < 500

\* Response.raise_for_status raises for these statuses.
IsHttpError(st) == 400 <= st /\ st < 600

\* response.raise_for_status(); return response.text
CheckStatus ==
    /\ pc = "status"
    /\ IF IsHttpError(Get(response).status)
       THEN /\ Propagate("transport")
            /\ UNCHANGED <<html, phase>>
       ELSE /\ html' = Some(Get(response).text)
            /\ phase' = [phase EXCEPT ![index] = "fetched"]
            /\ pc' = "extract"
            /\ UNCHANGED failure
    /\ UNCHANGED <<sources, file, index, response, links, entries, oldFile,
                   requested, extracted, saveCalls, xVars>>

\* links = source.extract_links(html), the default: Source.extract_links
\* calls extract_stream_links(html).
ExtractDefault ==
    /\ pc = "extract"
    /\ x_pc = "idle"
    /\ ~sources[index].override
    /\ x_html' = Get(html)
    /\ x_pc' = "parse"
    /\ response' = None
    /\ UNCHANGED <<x_texts, x_t, x_p, x_links, x_results>>
    /\ UNCHANGED <<sources, file, pc, index, html, links, entries, oldFile,
                   requested, phase, extracted, saveCalls, failure>>

\* extract_stream_links returns to Source.extract_links, which returns to
\* build_playlist: links is bound.
ExtractDefaultReturns ==
    /\ pc = "extract"
    /\ x_pc = "returned"
    /\ links' = x_results[Len(x_results)]
    /\ extracted' = [extracted EXCEPT ![index] = x_results[Len(x_results)]]
    /\ phase' = [phase EXCEPT ![index] = "extracted"]
    /\ pc' = "format"
    /\ x_pc' = "idle"
    /\ x_html' = <<>>
    /\ x_texts' = <<>>
    /\ x_t' = 0
    /\ x_p' = 0
    /\ x_links' = {}
    /\ x_results' = <<>>
    /\ UNCHANGED <<sources, file, index, response, html, entries, oldFile,
                   requested, saveCalls, failure>>

\* links = source.extract_links(html), an override returning a list
ExtractOverride ==
    /\ pc = "extract"
    /\ sources[index].override
    /\ \E r \in OverrideResults :
           /\ links' = r
           /\ extracted' = [extracted EXCEPT ![index] = r]
    /\ phase' = [phase EXCEPT ![index] = "extracted"]
    /\ response' = None
    /\ pc' = "format"
    /\ UNCHANGED <<sources, file, index, html, entries, oldFile, requested,
                   saveCalls, failure, xVars>>

\* source.extract_links(html), an override raising
ExtractRaises ==
    /\ pc = "extract"
    /\ sources[index].override
    /\ response' = None
    /\ Propagate("extract")
    /\ UNCHANGED <<sources, file, index, html, links, entries, oldFile,
                   requested, phase, extracted, saveCalls, xVars>>

\* f"#EXTINF:-1, {name}\n{url}"
format_playlist_entry(name, url) == <<"#EXTINF:-1, ">> \o name \o <<NL>> \o url

\* (mutation of FirstIndex: enumerate without start=1)
FirstIndexZero == 1 - 1

\* enumerate(links, start=1)
FirstIndex == 1

\* f"{source.name} {index}"
channel_name(source, i) == <<source.name, " ", ToString(i)>>

\* The entries the inner loop appends for one source.
SourceEntries(source, ls) ==
    [j \in 1..Len(ls) |->
        format_playlist_entry(channel_name(source, FirstIndex + j - 1), ls[j])]

\* for index, link in enumerate(links, start=1): entries.append(...)
\* and the outer loop moves on.
FormatEntries ==
    /\ pc = "format"
    /\ entries' = entries \o SourceEntries(sources[index], links)
    /\ html' = None
    /\ links' = <<>>
    /\ LoopFrom(index, [phase EXCEPT ![index] = "formatted"])
    /\ UNCHANGED <<sources, file, response, oldFile, requested, extracted,
                   saveCalls, failure, xVars>>

\* "\n".join(entries) + "\n"
Serialized(es) == JoinWith(NL, es) \o <<NL>>

\* (mutation of Written: the file is opened for appending)
WrittenAppended(prev, data) == IF prev = None THEN Some(data) ELSE Some(Get(prev) \o data)

\* The file after open(mode="w") and a complete write of data.
Written(prev, data) == Some(data)

\* save_playlist(entries): path.write_text succeeds.
SaveWrites ==
    /\ pc = "save"
    /\ saveCalls' = saveCalls + 1
    /\ file' = Written(file, Serialized(entries))
    /\ pc' = "done"
    /\ UNCHANGED <<sources, index, response, html, links, entries, oldFile,
                   requested, phase, extracted, failure, xVars>>

\* save_playlist(entries): opening the file raises (unwritable path,
\* permission denied); nothing is truncated.
SaveOpenRaises ==
    /\ pc = "save"
    /\ saveCalls' = saveCalls + 1
    /\ Propagate("filesystem")
    /\ UNCHANGED <<sources, file, index, response, html, links, entries,
                   oldFile, requested, phase, extracted, xVars>>

\* (mutation of Interrupted: the file is opened without being truncated)
InterruptedInPlace(prev, data, n) ==
    IF prev = None THEN Some(SubSeq(data, 1, n))
    ELSE Some(SubSeq(data, 1, n) \o SubSeq(Get(prev), n + 1, Len(Get(prev))))

\* The file after open(mode="w") and a write of data that stopped after n
\* tokens.
Interrupted(prev, data, n) == Some(SubSeq(data, 1, n))

\* save_playlist(entries): the file was opened with mode "w" (truncated) and
\* the write raises (disk full) before all of the text reached the file.
SaveWriteRaises ==
    /\ pc = "save"
    /\ saveCalls' = saveCalls + 1
    /\ \E n \in 0..(Len(Serialized(entries)) - 1) :
           file' = Interrupted(file, Serialized(entries), n)
    /\ Propagate("filesystem")
    /\ UNCHANGED <<sources, index, response, html, links, entries, oldFile,
                   requested, phase, extracted, xVars>>

Init ==
    /\ sources \in Registries
    /\ file \in InitialFiles
    /\ oldFile = file
    /\ pc = "start"
    /\ index = 0
    /\ response = None
    /\ html = None
    /\ links = <<>>
    /\ entries = <<>>
    /\ requested = [k \in Positions |-> 0]
    /\ phase = [k \in Positions |-> "pending"]
    /\ extracted = [k \in Positions |-> <<>>]
    /\ saveCalls = 0
    /\ failure = "none"
    /\ XIdle

Next ==
    \/ Start
    \/ RequestAnswered
    \/ RequestRaises
    \/ CheckStatus
    \/ ExtractDefault
    \/ ParseHtml
    \/ ScanPattern
    \/ ReturnSorted
    \/ ExtractDefaultReturns
    \/ ExtractOverride
    \/ ExtractRaises
    \/ FormatEntries
    \/ SaveWrites
    \/ SaveOpenRaises
    \/ SaveWriteRaises

Spec == Init /\ [][Next]_vars

\* The interpreter runs the single thread's next statement, and every
\* blocking call returns or raises within its timeout.
FairSpec == Spec /\ WF_vars(Next)

\* ------------------------------------------------------------- properties

\* fetch_html has just returned to build_playlist.
FetchReturned == pc = "extract" /\ x_pc = "idle"

BuildFailed == failure \in {"transport", "extract"}

\* build_playlist has returned its entries to main.
BuildReturned == pc = "save" \/ saveCalls > 0

StrictlyIncreasing(ls) == \A j \in 1..(Len(ls) - 1) : StrLess(ls[j], ls[j + 1])

NonDecreasing(ls) == \A j \in 1..(Len(ls) - 1) : ~StrLess(ls[j + 1], ls[j])

IsPrefix(a, b) == Len(a) <= Len(b) /\ SubSeq(b, 1, Len(a)) = a

\* The entries of the source at position k, written out token by token.
GroupAt(k) ==
    [j \in 1..Len(extracted[k]) |->
        <<"#EXTINF:-1, ", sources[k].name, " ", ToString(j), NL>> \o extracted[k][j]]

RECURSIVE GroupsUpTo(_)
GroupsUpTo(k) == IF k = 0 THEN <<>> ELSE GroupsUpTo(k - 1) \o GroupAt(k)

RECURSIVE LinksUpTo(_)
LinksUpTo(k) == IF k = 0 THEN 0 ELSE LinksUpTo(k - 1) + Len(extracted[k])

\* Every entry followed by a newline, one after the other.
RECURSIVE Lines(_)
Lines(es) == IF es = <<>> THEN <<>> ELSE Head(es) \o <<NL>> \o Lines(Tail(es))

\* C1: when fetch_html or extract_links raises for some source, the run
\* has failed without save_playlist ever being called, and the playlist
\* file is what it was before the run (absent, or its previous content).
C1_NoSaveOnBuildError ==
    BuildFailed => pc = "failed" /\ saveCalls = 0 /\ file = oldFile

\* An error at the second source, after the first contributed entries,
\* with a playlist already on disk.
C1_Witness ==
    /\ BuildFailed
    /\ index = 2
    /\ Len(entries) > 1
    /\ file = Some(OldPlaylist)

HasMatch(text) ==
    \E p \in STREAM_LINK_PATTERNS, a \in 1..Len(text), b \in 1..Len(text) :
        /\ text[a] = SCHEME
        /\ b >= a + 2
        /\ text[b] = Literal(p)
        /\ \A j \in a..b : InClass(text[j])

\* C3: every call of extract_stream_links returns a strictly increasing
\* sequence (sorted, no duplicates), all calls on the same input return the
\* same sequence, and the result is empty when neither the html nor its
\* stripped text holds a match.
C3_SortedDedupDeterministic ==
    \A r \in 1..Len(x_results) :
        /\ StrictlyIncreasing(x_results[r])
        /\ x_results[r] = x_results[1]
        /\ (~HasMatch(x_html) /\ ~HasMatch(get_text(x_html))) => x_results[r] = <<>>

\* Two calls have returned, and the input holds two distinct links.
C3_Witness ==
    /\ Len(x_results) = 2
    /\ Len(x_results[2]) >= 2

\* C4 (as amended): a run that failed in fetch or extraction leaves the file
\* as it was; a run that failed in save_playlist leaves the file as it was
\* (the open failed) or holding a proper prefix of the playlist text (the
\* write was cut short).
C4_FailureLeavesOldOrPrefix ==
    pc = "failed" =>
        \/ file = oldFile
        \/ /\ failure = "filesystem"
           /\ file # None
           /\ IsPrefix(Get(file), Lines(entries))
           /\ Get(file) # Lines(entries)

\* A failed write left a non-empty cut-off playlist in place of the old one.
C4_Witness ==
    /\ pc = "failed"
    /\ failure = "filesystem"
    /\ oldFile = Some(OldPlaylist)
    /\ file # oldFile
    /\ Len(Get(file)) > 1
    /\ Len(entries) > 1

\* C4 as stated: after a failed run the file holds no partial playlist: it
\* is as it was before the run, or it holds the whole playlist.
C4_Original ==
    pc = "failed" => file = oldFile \/ file = Some(Lines(entries))

\* C5 (as amended): fetch_html returns the response body exactly when the
\* final status is not in 400..599; for a 4xx or 5xx status, a network failure
\* or a timeout it raises and returns nothing; either way it has issued one
\* request.
C5_BodyUnlessClientOrServerError ==
    /\ FetchReturned =>
           /\ response # None
           /\ ~(Get(response).status \in 400..599)
           /\ html = Some(Get(response).text)
           /\ requested[index] = 1
    /\ (pc = "failed" /\ failure = "transport") =>
           /\ html = None
           /\ response = None \/ Get(response).status \in 400..599
           /\ requested[index] = 1

\* fetch_html has returned the body of a 304 answer.
C5_Witness ==
    /\ FetchReturned
    /\ Get(response).status = 304
    /\ html = Some(LinkM)

\* C5 as stated: fetch_html returns the body exactly when the status is 2xx.
C5_Original ==
    /\ FetchReturned =>
           /\ response # None
           /\ Get(response).status \in 200..299
           /\ html = Some(Get(response).text)
           /\ requested[index] = 1
    /\ (pc = "failed" /\ failure = "transport") =>
           /\ html = None
           /\ response = None \/ ~(Get(response).status \in 200..299)
           /\ requested[index] = 1

\* C6: after a successful save_playlist the file holds every entry followed
\* by one newline and nothing else, whatever it held before: the text ends
\* with a newline, and without that newline it is the entries joined by
\* single newlines.
C6_FileIsJoinedEntries ==
    pc = "done" =>
        /\ file # None
        /\ Get(file) = Lines(entries)
        /\ Get(file)[Len(Get(file))] = NL
        /\ SubSeq(Get(file), 1, Len(Get(file)) - 1) = JoinWith(NL, entries)

\* A playlist of several entries has replaced an older one.
C6_Witness ==
    /\ pc = "done"
    /\ oldFile = Some(OldPlaylist)
    /\ Len(entries) >= 3

\* C7: from the first statement of build_playlist on, entries starts with
\* "#EXTM3U" and holds it nowhere else; a run over an empty registry never
\* fails in the build; and a run that finished without any link wrote the
\* header line alone.
C7_HeaderFirstOnce ==
    /\ pc # "start" =>
           /\ Len(entries) >= 1
           /\ entries[1] = <<"#EXTM3U">>
           /\ \A j \in 2..Len(entries) : entries[j] # <<"#EXTM3U">>
    /\ sources = <<>> =>
           /\ ~BuildFailed
           /\ pc \in {"start", "save", "done", "failed"}
    /\ (pc = "done" /\ LinksUpTo(Len(sources)) = 0) =>
           file = Some(<<"#EXTM3U", NL>>)

\* A run over sources that yielded no link has finished, replacing an older
\* playlist by the header line.
C7_Witness ==
    /\ pc = "done"
    /\ Len(sources) >= 1
    /\ oldFile = Some(OldPlaylist)
    /\ file = Some(<<"#EXTM3U", NL>>)

\* C8: while the source at position index is being fetched, extracted or
\* formatted, every earlier position is completely processed and no later
\* one has been touched; at most one fetch is in progress; save_playlist is
\* called at most once, and only when every position is completely processed.
C8_StrictlySequential ==
    /\ pc \in {"request", "status", "extract", "format"} =>
           /\ index \in Positions
           /\ \A j \in Positions : j < index => phase[j] = "formatted"
           /\ \A j \in Positions : j > index => phase[j] = "pending" /\ requested[j] = 0
    /\ Cardinality({k \in Positions : phase[k] = "fetching"}) <= 1
    /\ saveCalls <= 1
    /\ BuildReturned => \A k \in Positions : phase[k] = "formatted"

\* The second source's fetch has begun after the first was formatted.
C8_Witness ==
    /\ pc = "request"
    /\ index = 2
    /\ phase[1] = "formatted"
    /\ Len(entries) > 1

Terminal == pc \in {"done", "failed"}

\* C9: every run reaches done or failed; done is entered only from the
\* write, after every source was fetched and extracted and without any
\* error; an error sends the run to failed at once; and nothing happens
\* after done or failed (so never both).
C9_Terminates ==
    /\ <>Terminal
    /\ [](pc = "done" =>
            /\ failure = "none"
            /\ saveCalls = 1
            /\ \A k \in Positions : phase[k] = "formatted" /\ requested[k] = 1)
    /\ [](failure # "none" <=> pc = "failed")
    /\ [][Terminal => UNCHANGED vars]_vars
    /\ [][(pc' = "done" /\ pc # "done") => pc = "save"]_vars

\* The run over the program's own registry has finished.
C9_Witness ==
    /\ pc = "done"
    /\ sources = SOURCES
    /\ saveCalls = 1

\* C10: no position is requested twice; when the build has returned every
\* position was requested exactly once and contributed its own group, also
\* a position holding the same Source as another; after a failing source no
\* later position is requested.
C10_OneRequestPerPosition ==
    /\ \A k \in Positions : requested[k] <= 1
    /\ BuildReturned =>
           /\ \A k \in Positions : requested[k] = 1
           /\ Len(entries) = 1 + LinksUpTo(Len(sources))
    /\ BuildFailed =>
           /\ \A k \in Positions : k < index => requested[k] = 1
           /\ \A k \in Positions : k > index => requested[k] = 0

\* A finished run over two equal sources, each of which contributed a link.
C10_Witness ==
    /\ pc = "done"
    /\ Len(sources) = 2
    /\ sources[1] = sources[2]
    /\ extracted[1] # <<>>
    /\ extracted[2] # <<>>

=============================================================================
